---- MODULE Spec2Model ----
(***************************************************************************)
(* Model of the cfdi crate (src/lib.rs): parse_cfdi deserialises the XML   *)
(* text of a CFDI into a Comprobante through the serde-derived             *)
(* Deserialize implementations of the structs, driven by                   *)
(* quick_xml::de::from_str; the accessors and get_datos_principales read   *)
(* the resulting value.                                                    *)
(*                                                                         *)
(* The XML text is modelled as the element tree it denotes:                *)
(*   [tag |-> local name, attrs |-> function from the names of the         *)
(*    attributes present to their text, kids |-> child elements in wire    *)
(*    order].                                                              *)
(* An f32 is modelled by the number of thousandths it denotes, so that     *)
(* "10.500" and "10.5" parse to the same value while staying different     *)
(* texts.                                                                  *)
(*                                                                         *)
(* What the derived Deserialize does with a field follows from the field's *)
(* declaration: a String or f32 attribute that is missing is an error, an  *)
(* Option attribute that is missing or empty is None, a Vec of child       *)
(* elements declared without #[serde(default)] is an error when there is   *)
(* no such child, a field met twice is an error, and names that no field   *)
(* is renamed to are skipped.  The crate's manifest is not among the       *)
(* sources, so whether quick-xml is built with its "overlapped-lists"      *)
(* feature (off by default) is left open: overlapped_lists takes both      *)
(* values.  The error is kept as a single value Err: anyhow::Error wraps   *)
(* the cause, and the callers only tell Ok from Err.                       *)
(***************************************************************************)
EXTENDS Integers, Sequences, FiniteSets, TLC

VARIABLES
    xml_content,       \* the text handed to parse_cfdi, as an element tree
    overlapped_lists,  \* whether quick-xml is built with "overlapped-lists"
    pc,                \* "input", "parsed", "failed", "consumed"
    parsed,            \* Result<Comprobante> returned by parse_cfdi
    ret                \* the value returned by the last accessor call

vars == <<xml_content, overlapped_lists, pc, parsed, ret>>

\* ---------------------------------------------------------------- bounds
MaxConceptos == 2

\* ------------------------------------------------- Result and Option
Err == [ok |-> FALSE]
Ok(v) == [ok |-> TRUE, val |-> v]
None == [some |-> FALSE]
Some(v) == [some |-> TRUE, val |-> v]

\* ------------------------------------------------------------ f32 texts
\* str::parse::<f32> on the texts of the model: the value in thousandths,
\* or no entry when the text is rejected.
F32Table ==
    [t \in {"116.00", "100.00", "2", "21.00", "1.00", "5.00", "10.500", "10.5"} |->
        CASE t = "116.00" -> 116000
          [] t = "100.00" -> 100000
          [] t = "2"      -> 2000
          [] t = "21.00"  -> 21000
          [] t = "1.00"   -> 1000
          [] t = "5.00"   -> 5000
          [] t = "10.500" -> 10500
          [] t = "10.5"   -> 10500]

ParseF32(t) == IF t \in DOMAIN F32Table THEN Ok(F32Table[t]) ELSE Err

\* ------------------------------------------ attribute fields (serde derive)
\* field: String
ReqString(attrs, name) ==
    IF name \in DOMAIN attrs THEN Ok(attrs[name]) ELSE Err

ReqF32Default(attrs, name) ==
    IF name \in DOMAIN attrs THEN ParseF32(attrs[name]) ELSE Ok(0)

\* field: f32
ReqF32(attrs, name) ==
    IF name \in DOMAIN attrs THEN ParseF32(attrs[name]) ELSE Err

OptStringRequired(attrs, name) ==
    IF name \in DOMAIN attrs THEN Ok(Some(attrs[name])) ELSE Err

\* field: Option<String>; an attribute that is present with an empty value
\* reaches visit_none, like a missing one
OptString(attrs, name) ==
    IF name \notin DOMAIN attrs \/ attrs[name] = ""
    THEN Ok(None)
    ELSE Ok(Some(attrs[name]))

\* field: Option<f32>
OptF32(attrs, name) ==
    IF name \notin DOMAIN attrs \/ attrs[name] = ""
    THEN Ok(None)
    ELSE LET r == ParseF32(attrs[name])
         IN  IF r.ok THEN Ok(Some(r.val)) ELSE Err

\* --------------------------------------------- element fields (serde derive)
ChildrenNamed(kids, name) == SelectSeq(kids, LAMBDA k : k.tag = name)

\* number of maximal runs of consecutive children called name
Runs(kids, name) ==
    Cardinality({i \in 1..Len(kids) :
        /\ kids[i].tag = name
        /\ (i = 1 \/ kids[i - 1].tag # name)})

\* The element fields yield the child element(s) the field is read from;
\* the struct that owns the field deserialises them.
\* field: T, a struct read from a child element: no such element is a
\* missing field, a second one a duplicate field
ReqChild(kids, name) ==
    LET m == ChildrenNamed(kids, name)
    IN  IF Len(m) # 1 THEN Err ELSE Ok(m[1])

\* field: Option<T>, a struct read from a child element
OptChild(kids, name) ==
    LET m == ChildrenNamed(kids, name)
    IN  IF Len(m) = 0 THEN Ok(None)
        ELSE IF Len(m) > 1 THEN Err
        ELSE Ok(Some(m[1]))

VecChildReversed(kids, name, overlapped) ==
    LET m == ChildrenNamed(kids, name)
    IN  IF Len(m) = 0 THEN Err
        ELSE IF ~overlapped /\ Runs(kids, name) > 1 THEN Err
        ELSE Ok([i \in 1..Len(m) |-> m[Len(m) + 1 - i]])

VecChildDefault(kids, name, overlapped) ==
    LET m == ChildrenNamed(kids, name)
    IN  IF ~overlapped /\ Runs(kids, name) > 1 THEN Err
        ELSE Ok(m)

\* field: Vec<T> without #[serde(default)]: no element leaves the field
\* missing; without "overlapped-lists" a second run of elements is a
\* duplicate field
VecChild(kids, name, overlapped) ==
    LET m == ChildrenNamed(kids, name)
    IN  IF Len(m) = 0 THEN Err
        ELSE IF ~overlapped /\ Runs(kids, name) > 1 THEN Err
        ELSE Ok(m)

\* ------------------------------------------------------------- the structs
Emisor(el) ==
    LET a == el.attrs
        rfc == ReqString(a, "Rfc")
        nombre == ReqString(a, "Nombre")
        regimen_fiscal == ReqString(a, "RegimenFiscal")
    IN  IF rfc.ok /\ nombre.ok /\ regimen_fiscal.ok
        THEN Ok([rfc |-> rfc.val, nombre |-> nombre.val,
                 regimen_fiscal |-> regimen_fiscal.val])
        ELSE Err

Receptor(el) ==
    LET a == el.attrs
        rfc == ReqString(a, "Rfc")
        nombre == ReqString(a, "Nombre")
        regimen_fiscal == ReqString(a, "RegimenFiscalReceptor")
        uso_cfdi == ReqString(a, "UsoCFDI")
    IN  IF rfc.ok /\ nombre.ok /\ regimen_fiscal.ok /\ uso_cfdi.ok
        THEN Ok([rfc |-> rfc.val, nombre |-> nombre.val,
                 regimen_fiscal |-> regimen_fiscal.val,
                 uso_cfdi |-> uso_cfdi.val])
        ELSE Err

ConceptoNumericValor(el) ==
    LET a == el.attrs
        clave_product == ReqString(a, "ClaveProdServ")
        cantidad == ReqF32(a, "Cantidad")
        clave_unidad == ReqString(a, "ClaveUnidad")
        unidad == OptString(a, "Unidad")
        descripcion == ReqString(a, "Descripcion")
        valor_unitario == ReqF32(a, "ValorUnitario")
        importe == ReqF32(a, "Importe")
        descuento == OptF32(a, "Descuento")
    IN  IF /\ clave_product.ok /\ cantidad.ok /\ clave_unidad.ok /\ unidad.ok
           /\ descripcion.ok /\ valor_unitario.ok /\ importe.ok /\ descuento.ok
        THEN Ok([clave_product |-> clave_product.val,
                 cantidad |-> cantidad.val,
                 clave_unidad |-> clave_unidad.val,
                 unidad |-> unidad.val,
                 descripcion |-> descripcion.val,
                 valor_unitario |-> a["ValorUnitario"],
                 importe |-> importe.val,
                 descuento |-> descuento.val])
        ELSE Err

Concepto(el) ==
    LET a == el.attrs
        clave_product == ReqString(a, "ClaveProdServ")
        cantidad == ReqF32(a, "Cantidad")
        clave_unidad == ReqString(a, "ClaveUnidad")
        unidad == OptString(a, "Unidad")
        descripcion == ReqString(a, "Descripcion")
        valor_unitario == ReqString(a, "ValorUnitario")
        importe == ReqF32(a, "Importe")
        descuento == OptF32(a, "Descuento")
    IN  IF /\ clave_product.ok /\ cantidad.ok /\ clave_unidad.ok /\ unidad.ok
           /\ descripcion.ok /\ valor_unitario.ok /\ importe.ok /\ descuento.ok
        THEN Ok([clave_product |-> clave_product.val,
                 cantidad |-> cantidad.val,
                 clave_unidad |-> clave_unidad.val,
                 unidad |-> unidad.val,
                 descripcion |-> descripcion.val,
                 valor_unitario |-> valor_unitario.val,
                 importe |-> importe.val,
                 descuento |-> descuento.val])
        ELSE Err

TimbreFiscalDigitalLenient(el) ==
    LET a == el.attrs
    IN  IF {"Version", "UUID", "FechaTimbrado", "NoCertificadoSAT"} \subseteq DOMAIN a
        THEN Ok([version |-> a["Version"], uuid |-> a["UUID"],
                 fecha_timbrado |-> a["FechaTimbrado"],
                 no_certificado_sat |-> a["NoCertificadoSAT"]])
        ELSE Ok([version |-> "", uuid |-> "", fecha_timbrado |-> "",
                 no_certificado_sat |-> ""])

TimbreFiscalDigital(el) ==
    LET a == el.attrs
        version == ReqString(a, "Version")
        uuid == ReqString(a, "UUID")
        fecha_timbrado == ReqString(a, "FechaTimbrado")
        no_certificado_sat == ReqString(a, "NoCertificadoSAT")
    IN  IF version.ok /\ uuid.ok /\ fecha_timbrado.ok /\ no_certificado_sat.ok
        THEN Ok([version |-> version.val, uuid |-> uuid.val,
                 fecha_timbrado |-> fecha_timbrado.val,
                 no_certificado_sat |-> no_certificado_sat.val])
        ELSE Err

Complemento(el) ==
    LET child == OptChild(el.kids, "TimbreFiscalDigital")
        timbre_fiscal_digital ==
            IF ~child.ok THEN Err
            ELSE IF ~child.val.some THEN Ok(None)
            ELSE LET r == TimbreFiscalDigital(child.val.val)
                 IN  IF r.ok THEN Ok(Some(r.val)) ELSE Err
    IN  IF timbre_fiscal_digital.ok
        THEN Ok([timbre_fiscal_digital |-> timbre_fiscal_digital.val])
        ELSE Err

Conceptos(el, overlapped) ==
    LET children == VecChild(el.kids, "Concepto", overlapped)
        concepto ==
            IF ~children.ok THEN Err
            ELSE IF \E i \in 1..Len(children.val) : ~Concepto(children.val[i]).ok
            THEN Err
            ELSE Ok([i \in 1..Len(children.val) |-> Concepto(children.val[i]).val])
    IN  IF concepto.ok THEN Ok([concepto |-> concepto.val]) ELSE Err

Comprobante(el, overlapped) ==
    LET a == el.attrs
        emisor_el == ReqChild(el.kids, "Emisor")
        receptor_el == ReqChild(el.kids, "Receptor")
        conceptos_el == ReqChild(el.kids, "Conceptos")
        complemento_el == OptChild(el.kids, "Complemento")
        total == ReqF32(a, "Total")
        subtotal == ReqF32(a, "SubTotal")
        fecha == ReqString(a, "Fecha")
        forma_pago == OptString(a, "FormaPago")
        descuento == OptString(a, "Descuento")
        tipo_comprobante == ReqString(a, "TipoDeComprobante")
        emisor == IF emisor_el.ok THEN Emisor(emisor_el.val) ELSE Err
        receptor == IF receptor_el.ok THEN Receptor(receptor_el.val) ELSE Err
        conceptos ==
            IF conceptos_el.ok THEN Conceptos(conceptos_el.val, overlapped) ELSE Err
        complemento ==
            IF ~complemento_el.ok THEN Err
            ELSE IF ~complemento_el.val.some THEN Ok(None)
            ELSE LET r == Complemento(complemento_el.val.val)
                 IN  IF r.ok THEN Ok(Some(r.val)) ELSE Err
    IN  IF /\ total.ok /\ subtotal.ok /\ fecha.ok /\ forma_pago.ok
           /\ descuento.ok /\ tipo_comprobante.ok /\ emisor.ok /\ receptor.ok
           /\ conceptos.ok /\ complemento.ok
        THEN Ok([total |-> total.val,
                 subtotal |-> subtotal.val,
                 fecha |-> fecha.val,
                 forma_pago |-> forma_pago.val,
                 descuento |-> descuento.val,
                 tipo_comprobante |-> tipo_comprobante.val,
                 emisor |-> emisor.val,
                 receptor |-> receptor.val,
                 conceptos |-> conceptos.val,
                 complemento |-> complemento.val])
        ELSE Err

\* from_str(xml_content)?; Ok(res)
parse_cfdi(xml, overlapped) == Comprobante(xml, overlapped)

\* ------------------------------------------------------- impl Comprobante
get_conceptos(self) == self.conceptos.concepto

get_uuid_unchecked(self) ==
    IF self.complemento.some
    THEN Some(IF self.complemento.val.timbre_fiscal_digital.some
              THEN self.complemento.val.timbre_fiscal_digital.val.uuid
              ELSE "")
    ELSE None

get_uuid(self) ==
    IF self.complemento.some
    THEN IF self.complemento.val.timbre_fiscal_digital.some
         THEN Some(self.complemento.val.timbre_fiscal_digital.val.uuid)
         ELSE None
    ELSE None

get_fecha_timbrado(self) ==
    IF self.complemento.some
    THEN IF self.complemento.val.timbre_fiscal_digital.some
         THEN Some(self.complemento.val.timbre_fiscal_digital.val.fecha_timbrado)
         ELSE None
    ELSE None

get_datos_principales_mixed(self) ==
    [total |-> self.total,
     subtotal |-> self.subtotal,
     fecha |-> self.fecha,
     emisor_nombre |-> self.emisor.nombre,
     emisor_rfc |-> self.emisor.rfc,
     receptor_nombre |-> self.receptor.nombre,
     receptor_rfc |-> self.receptor.rfc,
     uuid |-> get_uuid(self),
     fecha_timbrado |-> get_uuid(self),
     conceptos |-> get_conceptos(self)]

get_datos_principales_swapped(self) ==
    [total |-> self.total,
     subtotal |-> self.subtotal,
     fecha |-> self.fecha,
     emisor_nombre |-> self.receptor.nombre,
     emisor_rfc |-> self.receptor.rfc,
     receptor_nombre |-> self.emisor.nombre,
     receptor_rfc |-> self.emisor.rfc,
     uuid |-> get_uuid(self),
     fecha_timbrado |-> get_fecha_timbrado(self),
     conceptos |-> get_conceptos(self)]

get_datos_principales(self) ==
    [total |-> self.total,
     subtotal |-> self.subtotal,
     fecha |-> self.fecha,
     emisor_nombre |-> self.emisor.nombre,
     emisor_rfc |-> self.emisor.rfc,
     receptor_nombre |-> self.receptor.nombre,
     receptor_rfc |-> self.receptor.rfc,
     uuid |-> get_uuid(self),
     fecha_timbrado |-> get_fecha_timbrado(self),
     conceptos |-> get_conceptos(self)]

\* ------------------------------------------------------------ the inputs
\* The texts handed to parse_cfdi: a well-formed CFDI with 0..MaxConceptos
\* concepts, unstamped, with an empty Complemento or stamped, changed in at
\* most one place.
EmptyAttrs == [n \in {} |-> ""]

Letters == <<"A", "B", "C", "D", "E">>

BaseAttrs(el, idx) ==
    CASE el = "Comprobante" ->
            [Total |-> "116.00", SubTotal |-> "100.00",
             Fecha |-> "2024-01-01T12:00:00", FormaPago |-> "01",
             Descuento |-> "5.00", TipoDeComprobante |-> "I"]
      [] el = "Emisor" ->
            [Rfc |-> "EEE010101EE1", Nombre |-> "EMISOR SA",
             RegimenFiscal |-> "601"]
      [] el = "Receptor" ->
            [Rfc |-> "RRR020202RR2", Nombre |-> "RECEPTOR SC",
             RegimenFiscalReceptor |-> "612", UsoCFDI |-> "G03"]
      [] el = "Concepto" ->
            [ClaveProdServ |-> "01010101", Cantidad |-> "2",
             ClaveUnidad |-> "H87", Unidad |-> "Pieza",
             Descripcion |-> Letters[idx], ValorUnitario |-> "10.500",
             Importe |-> "21.00", Descuento |-> "1.00"]
      [] el = "TimbreFiscalDigital" ->
            [Version |-> "1.1", UUID |-> "uuid-1",
             FechaTimbrado |-> "2024-01-02T08:00:00",
             NoCertificadoSAT |-> "30001000000500003416"]
      [] OTHER -> EmptyAttrs

\* texts an edit writes into an attribute
Texts == {"10.500", "10.5", "abc", ""}

UnknownAttr == "Sello"
UnknownElement == [tag |-> "CfdiRelacionados", attrs |-> EmptyAttrs, kids |-> <<>>]

StampKinds == {"none", "empty", "stamped"}

\* the elements of the input of a given shape
Targets(nC, stamp) ==
    {[el |-> "Comprobante", idx |-> 0], [el |-> "Emisor", idx |-> 0],
     [el |-> "Receptor", idx |-> 0], [el |-> "Conceptos", idx |-> 0]}
    \cup {[el |-> "Concepto", idx |-> i] : i \in 1..nC}
    \cup (IF stamp = "none" THEN {} ELSE {[el |-> "Complemento", idx |-> 0]})
    \cup (IF stamp = "stamped"
          THEN {[el |-> "TimbreFiscalDigital", idx |-> 0]} ELSE {})

TopLen(stamp) == IF stamp = "none" THEN 3 ELSE 4

\* the optional attributes, by element
OptKinds ==
    {<<"Comprobante", "FormaPago">>, <<"Comprobante", "Descuento">>,
     <<"Concepto", "Unidad">>, <<"Concepto", "Descuento">>}

NoEdit ==
    [kind |-> "none", el |-> "", idx |-> 0, name |-> "", text |-> "", pos |-> 0,
     omit |-> {}]

Edits(nC, stamp) ==
    {NoEdit}
    \cup {[kind |-> "rm", el |-> t.el, idx |-> t.idx, name |-> n, text |-> "", pos |-> 0, omit |-> {}] :
            <<t, n>> \in {<<t, n>> \in Targets(nC, stamp) \X
                            {"Total", "SubTotal", "Fecha", "FormaPago", "Descuento",
                             "TipoDeComprobante", "Rfc", "Nombre", "RegimenFiscal",
                             "RegimenFiscalReceptor", "UsoCFDI", "ClaveProdServ",
                             "Cantidad", "ClaveUnidad", "Unidad", "Descripcion",
                             "ValorUnitario", "Importe", "Version", "UUID",
                             "FechaTimbrado", "NoCertificadoSAT"} :
                            n \in DOMAIN BaseAttrs(t.el, t.idx)}}
    \cup {[kind |-> "set", el |-> tn[1].el, idx |-> tn[1].idx, name |-> tn[2],
           text |-> x, pos |-> 0, omit |-> {}] :
            <<tn, x>> \in {<<t, n>> \in Targets(nC, stamp) \X
                            {"Total", "SubTotal", "Fecha", "FormaPago", "Descuento",
                             "TipoDeComprobante", "Rfc", "Nombre", "RegimenFiscal",
                             "RegimenFiscalReceptor", "UsoCFDI", "ClaveProdServ",
                             "Cantidad", "ClaveUnidad", "Unidad", "Descripcion",
                             "ValorUnitario", "Importe", "Version", "UUID",
                             "FechaTimbrado", "NoCertificadoSAT"} :
                            n \in DOMAIN BaseAttrs(t.el, t.idx)} \X Texts}
    \cup {[kind |-> "unk", el |-> t.el, idx |-> t.idx, name |-> UnknownAttr,
           text |-> "x", pos |-> 0, omit |-> {}] : t \in Targets(nC, stamp)}
    \cup {[kind |-> "ins", el |-> "Comprobante", idx |-> 0, name |-> "", text |-> "",
           pos |-> p, omit |-> {}] : p \in 0..TopLen(stamp)}
    \cup {[kind |-> "ins", el |-> "Conceptos", idx |-> 0, name |-> "", text |-> "",
           pos |-> p, omit |-> {}] : p \in 0..nC}
    \cup {[kind |-> "ins", el |-> "Complemento", idx |-> 0, name |-> "", text |-> "",
           pos |-> p, omit |-> {}] : p \in IF stamp = "none" THEN {}
                              ELSE IF stamp = "empty" THEN {0} ELSE {0, 1}}
    \cup {[kind |-> "stray", el |-> "Comprobante", idx |-> 0, name |-> "", text |-> "",
           pos |-> 0, omit |-> {}]}
    \cup {[kind |-> "omit", el |-> "", idx |-> 0, name |-> "", text |-> "", pos |-> 0,
           omit |-> S] : S \in SUBSET OptKinds \ {{}}}
    \cup {[kind |-> k, el |-> "Comprobante", idx |-> 0, name |-> "", text |-> "",
           pos |-> p, omit |-> {}] : <<k, p>> \in {"rmkid", "dupkid"} \X (1..TopLen(stamp))}

InsertAt(s, p, x) == SubSeq(s, 1, p) \o <<x>> \o SubSeq(s, p + 1, Len(s))
RemoveAt(s, p) == SubSeq(s, 1, p - 1) \o SubSeq(s, p + 1, Len(s))

WithoutAttr(attrs, name) == [n \in DOMAIN attrs \ {name} |-> attrs[n]]
WithAttr(attrs, name, text) ==
    [n \in DOMAIN attrs \cup {name} |-> IF n = name THEN text ELSE attrs[n]]

Build(nC, stamp, e) ==
    LET AttrsFor(el, idx) ==
            LET base == BaseAttrs(el, idx)
            IN  IF e.kind = "omit"
                THEN [n \in DOMAIN base \ {k[2] : k \in {k \in e.omit : k[1] = el}} |->
                        base[n]]
                ELSE IF e.el = el /\ e.idx = idx
                THEN CASE e.kind = "rm" -> WithoutAttr(base, e.name)
                       [] e.kind = "set" -> WithAttr(base, e.name, e.text)
                       [] e.kind = "unk" -> WithAttr(base, e.name, e.text)
                       [] OTHER -> base
                ELSE base
        KidsFor(el, kids) ==
            IF e.kind = "ins" /\ e.el = el
            THEN InsertAt(kids, e.pos, UnknownElement) ELSE kids
        Elem(el, idx, kids) ==
            [tag |-> el, attrs |-> AttrsFor(el, idx), kids |-> KidsFor(el, kids)]
        tfd == Elem("TimbreFiscalDigital", 0, <<>>)
        top == <<Elem("Emisor", 0, <<>>),
                 Elem("Receptor", 0, <<>>),
                 Elem("Conceptos", 0, [i \in 1..nC |-> Elem("Concepto", i, <<>>)])>>
               \o (CASE stamp = "none" -> <<>>
                     [] stamp = "empty" -> <<Elem("Complemento", 0, <<>>)>>
                     [] stamp = "stamped" -> <<Elem("Complemento", 0, <<tfd>>)>>)
        top2 == CASE e.kind = "stray" ->
                        Append(top, [tag |-> "TimbreFiscalDigital",
                                     attrs |-> BaseAttrs("TimbreFiscalDigital", 0),
                                     kids |-> <<>>])
                  [] e.kind = "rmkid" -> RemoveAt(top, e.pos)
                  [] e.kind = "dupkid" -> InsertAt(top, e.pos, top[e.pos])
                  [] OTHER -> top
    IN  Elem("Comprobante", 0, top2)

\* ------------------------------------------------------------ the machine
NoRet == [op |-> "none"]

Init ==
    /\ \E nC \in 0..MaxConceptos, stamp \in StampKinds :
         \E e \in Edits(nC, stamp) : xml_content = Build(nC, stamp, e)
    /\ overlapped_lists \in BOOLEAN
    /\ pc = "input"
    /\ parsed = Err
    /\ ret = NoRet

ParseCfdi ==
    /\ pc = "input"
    /\ parsed' = parse_cfdi(xml_content, overlapped_lists)
    /\ pc' = IF parsed'.ok THEN "parsed" ELSE "failed"
    /\ UNCHANGED <<xml_content, overlapped_lists, ret>>

GetConceptos ==
    /\ pc = "parsed"
    /\ ret' = [op |-> "get_conceptos", val |-> get_conceptos(parsed.val)]
    /\ UNCHANGED <<xml_content, overlapped_lists, pc, parsed>>

GetUuid ==
    /\ pc = "parsed"
    /\ ret' = [op |-> "get_uuid", val |-> get_uuid(parsed.val)]
    /\ UNCHANGED <<xml_content, overlapped_lists, pc, parsed>>

GetFechaTimbrado ==
    /\ pc = "parsed"
    /\ ret' = [op |-> "get_fecha_timbrado", val |-> get_fecha_timbrado(parsed.val)]
    /\ UNCHANGED <<xml_content, overlapped_lists, pc, parsed>>

\* get_datos_principales takes self by value: the Comprobante is gone after
GetDatosPrincipales ==
    /\ pc = "parsed"
    /\ ret' = [op |-> "get_datos_principales",
               val |-> get_datos_principales(parsed.val)]
    /\ pc' = "consumed"
    /\ UNCHANGED <<xml_content, overlapped_lists, parsed>>

Next ==
    \/ ParseCfdi
    \/ GetConceptos
    \/ GetUuid
    \/ GetFechaTimbrado
    \/ GetDatosPrincipales

Spec == Init /\ [][Next]_vars

\* ================================================================ claims
\* What the source text contains, read off the element tree.
Returned == pc # "input"
HasDocument == pc \in {"parsed", "consumed"}

SrcEmisores == ChildrenNamed(xml_content.kids, "Emisor")
SrcReceptores == ChildrenNamed(xml_content.kids, "Receptor")
SrcConceptosEls == ChildrenNamed(xml_content.kids, "Conceptos")
SrcComplementos == ChildrenNamed(xml_content.kids, "Complemento")

\* the Concepto elements of the source, in wire order
SrcConceptoEls ==
    IF Len(SrcConceptosEls) = 0 THEN <<>>
    ELSE ChildrenNamed(SrcConceptosEls[1].kids, "Concepto")

\* the TimbreFiscalDigital elements inside a Complemento of the source
SrcTimbres ==
    IF Len(SrcComplementos) = 0 THEN <<>>
    ELSE ChildrenNamed(SrcComplementos[1].kids, "TimbreFiscalDigital")

SourceHasStamp == Len(SrcComplementos) > 0 /\ Len(SrcTimbres) > 0

Lacks(el, names) == ~(names \subseteq DOMAIN el.attrs)

\* C1: on every Document produced by parse_cfdi, get_uuid() is present iff
\* get_fecha_timbrado() is present iff the source holds a Complemento with a
\* TimbreFiscalDigital inside it; the accessor calls return exactly that.
C1_StampPresence ==
    /\ HasDocument =>
         /\ get_uuid(parsed.val).some = get_fecha_timbrado(parsed.val).some
         /\ get_uuid(parsed.val).some = SourceHasStamp
    /\ (pc = "parsed" /\ ret.op = "get_uuid") => ret.val.some = SourceHasStamp
    /\ (pc = "parsed" /\ ret.op = "get_fecha_timbrado") =>
         ret.val.some = SourceHasStamp

\* a Complemento without TimbreFiscalDigital was parsed and get_uuid()
\* returned None
C1_Witness ==
    /\ pc = "parsed"
    /\ ret.op = "get_uuid"
    /\ ~ret.val.some
    /\ Len(SrcComplementos) = 1
    /\ ~SourceHasStamp

\* C2: the Summary built by get_datos_principales(D) has uuid equal to
\* D.get_uuid() and fecha_timbrado equal to D.get_fecha_timbrado(), in
\* presence and in value (the values being the source's UUID and
\* FechaTimbrado attributes).
C2_SummaryStampEquivalence ==
    pc = "consumed" =>
        /\ ret.val.uuid = get_uuid(parsed.val)
        /\ ret.val.fecha_timbrado = get_fecha_timbrado(parsed.val)
        /\ ret.val.uuid =
             IF SourceHasStamp THEN Some(SrcTimbres[1].attrs["UUID"]) ELSE None
        /\ ret.val.fecha_timbrado =
             IF SourceHasStamp THEN Some(SrcTimbres[1].attrs["FechaTimbrado"])
             ELSE None

\* a Summary was built from a stamped Document
C2_Witness ==
    /\ pc = "consumed"
    /\ ret.val.uuid.some
    /\ ret.val.fecha_timbrado.some

\* the fields of a Concepto that are plain copies of attribute texts
SameTexts(c, el) ==
    /\ c.clave_product = el.attrs["ClaveProdServ"]
    /\ c.clave_unidad = el.attrs["ClaveUnidad"]
    /\ c.descripcion = el.attrs["Descripcion"]
    /\ c.valor_unitario = el.attrs["ValorUnitario"]

InWireOrder(cs) ==
    /\ Len(cs) = Len(SrcConceptoEls)
    /\ \A i \in 1..Len(cs) : SameTexts(cs[i], SrcConceptoEls[i])

\* C3: get_conceptos() and the conceptos of the Summary hold exactly the
\* Concepto elements of the source, same length, in wire order.
C3_ConceptOrder ==
    /\ HasDocument => InWireOrder(get_conceptos(parsed.val))
    /\ (pc = "parsed" /\ ret.op = "get_conceptos") => InWireOrder(ret.val)
    /\ pc = "consumed" => InWireOrder(ret.val.conceptos)

\* a Summary holding two concepts with different descriptions
C3_Witness ==
    /\ pc = "consumed"
    /\ Len(ret.val.conceptos) >= 2
    /\ ret.val.conceptos[1].descripcion # ret.val.conceptos[2].descripcion

SomeLacks(els, names) == \E i \in 1..Len(els) : Lacks(els[i], names)

ConceptoRequired ==
    {"ClaveProdServ", "Cantidad", "ClaveUnidad", "Descripcion", "ValorUnitario",
     "Importe"}

\* a required attribute of a recognised element of the source, or a required
\* child element, is missing
MissingRequired ==
    \/ Lacks(xml_content, {"Total", "SubTotal", "Fecha", "TipoDeComprobante"})
    \/ Len(SrcEmisores) = 0
    \/ Len(SrcReceptores) = 0
    \/ Len(SrcConceptosEls) = 0
    \/ SomeLacks(SrcEmisores, {"Rfc", "Nombre", "RegimenFiscal"})
    \/ SomeLacks(SrcReceptores, {"Rfc", "Nombre", "RegimenFiscalReceptor", "UsoCFDI"})
    \/ \E j \in 1..Len(SrcConceptosEls) :
         SomeLacks(ChildrenNamed(SrcConceptosEls[j].kids, "Concepto"), ConceptoRequired)

\* C4: a missing required attribute or required child element makes
\* parse_cfdi return an error and no Document.
C4_MissingRequiredFails ==
    (Returned /\ MissingRequired) => (pc = "failed" /\ parsed = Err)

\* parse_cfdi failed on a text whose second Concepto lacks Importe
C4_Witness ==
    /\ pc = "failed"
    /\ Len(SrcConceptoEls) >= 2
    /\ "Importe" \notin DOMAIN SrcConceptoEls[2].attrs

\* C8: get_datos_principales(D) always returns a Summary with all its
\* fields, whose total, subtotal, fecha, emisor_nombre/emisor_rfc and
\* receptor_nombre/receptor_rfc are those of D (and so of the source), not
\* swapped and not transformed.
C8_SummaryCopies ==
    /\ pc = "parsed" => ENABLED GetDatosPrincipales
    /\ pc = "consumed" =>
        /\ ret.op = "get_datos_principales"
        /\ DOMAIN ret.val =
             {"total", "subtotal", "fecha", "emisor_nombre", "emisor_rfc",
              "receptor_nombre", "receptor_rfc", "uuid", "fecha_timbrado",
              "conceptos"}
        /\ ret.val.total = parsed.val.total
        /\ ret.val.subtotal = parsed.val.subtotal
        /\ ret.val.fecha = parsed.val.fecha
        /\ ret.val.emisor_nombre = parsed.val.emisor.nombre
        /\ ret.val.emisor_rfc = parsed.val.emisor.rfc
        /\ ret.val.receptor_nombre = parsed.val.receptor.nombre
        /\ ret.val.receptor_rfc = parsed.val.receptor.rfc
        /\ ret.val.total = F32Table[xml_content.attrs["Total"]]
        /\ ret.val.subtotal = F32Table[xml_content.attrs["SubTotal"]]
        /\ ret.val.fecha = xml_content.attrs["Fecha"]
        /\ ret.val.emisor_nombre = SrcEmisores[1].attrs["Nombre"]
        /\ ret.val.emisor_rfc = SrcEmisores[1].attrs["Rfc"]
        /\ ret.val.receptor_nombre = SrcReceptores[1].attrs["Nombre"]
        /\ ret.val.receptor_rfc = SrcReceptores[1].attrs["Rfc"]

\* a Summary was built from a Document without Complemento
C8_Witness ==
    /\ pc = "consumed"
    /\ Len(SrcComplementos) = 0
    /\ ret.val.emisor_rfc # ret.val.receptor_rfc
    /\ ret.val.total # ret.val.subtotal

\* ------------------------------------------------ edits of the source text
WithoutAttrs(attrs, names) == [n \in DOMAIN attrs \ names |-> attrs[n]]

\* where the source holds an optional attribute: <<element, j, k, name>>,
\* a Concepto being child k of the Conceptos that is child j of the root
OptLocs ==
    {<<"Comprobante", 0, 0, n>> : n \in {"FormaPago", "Descuento"} \cap DOMAIN xml_content.attrs}
    \cup UNION {UNION {{<<"Concepto", j, k, n>> :
                            n \in {"Unidad", "Descuento"}
                                    \cap DOMAIN xml_content.kids[j].kids[k].attrs} :
                        k \in {k \in 1..Len(xml_content.kids[j].kids) :
                                 xml_content.kids[j].kids[k].tag = "Concepto"}} :
                j \in {j \in 1..Len(xml_content.kids) :
                         xml_content.kids[j].tag = "Conceptos"}}

\* the source without the attributes at the locations S
Omit(xml, S) ==
    LET ConceptoK(j, k, q) ==
            IF q.tag # "Concepto" THEN q
            ELSE [q EXCEPT !.attrs =
                    WithoutAttrs(@, {l[4] : l \in {l \in S :
                        l[1] = "Concepto" /\ l[2] = j /\ l[3] = k}})]
        TopJ(j, c) ==
            IF c.tag # "Conceptos" THEN c
            ELSE [c EXCEPT !.kids = [k \in 1..Len(c.kids) |-> ConceptoK(j, k, c.kids[k])]]
    IN  [tag |-> xml.tag,
         attrs |-> WithoutAttrs(xml.attrs,
                      {l[4] : l \in {l \in S : l[1] = "Comprobante"}}),
         kids |-> [j \in 1..Len(xml.kids) |-> TopJ(j, xml.kids[j])]]

\* the concept read from child k of a Conceptos element
Rank(kids, k) == Len(ChildrenNamed(SubSeq(kids, 1, k), "Concepto"))

\* the Document d with the fields of the locations S absent
Absent(d, S) ==
    LET Gone(i, n) ==
            \E l \in S : /\ l[1] = "Concepto" /\ l[4] = n
                         /\ Rank(xml_content.kids[l[2]].kids, l[3]) = i
        Con(i, c) ==
            [c EXCEPT !.unidad = IF Gone(i, "Unidad") THEN None ELSE @,
                      !.descuento = IF Gone(i, "Descuento") THEN None ELSE @]
        cs == d.conceptos.concepto
    IN  [d EXCEPT
            !.forma_pago =
                IF <<"Comprobante", 0, 0, "FormaPago">> \in S THEN None ELSE @,
            !.descuento =
                IF <<"Comprobante", 0, 0, "Descuento">> \in S THEN None ELSE @,
            !.conceptos = [concepto |-> [i \in 1..Len(cs) |-> Con(i, cs[i])]]]

JustReturned == pc \in {"parsed", "failed"} /\ ret = NoRet

\* C5: omitting any subset of the optional attributes (FormaPago, Descuento
\* on Comprobante; Unidad, Descuento on a Concepto) from a text that parses
\* still parses, each omitted attribute reads as None, and every other field
\* of the Document is unchanged.
C5_OptionalOmitted ==
    (JustReturned /\ parsed.ok) =>
        \A S \in SUBSET OptLocs :
            LET r == parse_cfdi(Omit(xml_content, S), overlapped_lists)
            IN  r.ok /\ r.val = Absent(parsed.val, S)

\* a text without FormaPago and Descuento on Comprobante was parsed, both
\* fields are None, and optional attributes of its concepts can still be
\* omitted
C5_Witness ==
    /\ pc = "parsed"
    /\ {"FormaPago", "Descuento"} \cap DOMAIN xml_content.attrs = {}
    /\ ~parsed.val.forma_pago.some
    /\ ~parsed.val.descuento.some
    /\ Cardinality(OptLocs) >= 4

\* what each element is read for
KnownAttrs(tag) ==
    CASE tag = "Comprobante" ->
            {"Total", "SubTotal", "Fecha", "FormaPago", "Descuento", "TipoDeComprobante"}
      [] tag = "Emisor" -> {"Rfc", "Nombre", "RegimenFiscal"}
      [] tag = "Receptor" -> {"Rfc", "Nombre", "RegimenFiscalReceptor", "UsoCFDI"}
      [] tag = "Concepto" ->
            {"ClaveProdServ", "Cantidad", "ClaveUnidad", "Unidad", "Descripcion",
             "ValorUnitario", "Importe", "Descuento"}
      [] tag = "TimbreFiscalDigital" ->
            {"Version", "UUID", "FechaTimbrado", "NoCertificadoSAT"}
      [] OTHER -> {}

KnownKids(tag) ==
    CASE tag = "Comprobante" -> {"Emisor", "Receptor", "Conceptos", "Complemento"}
      [] tag = "Conceptos" -> {"Concepto"}
      [] tag = "Complemento" -> {"TimbreFiscalDigital"}
      [] OTHER -> {}

RECURSIVE StripUnknown(_)
\* the element without its unrecognised attributes and child elements
StripUnknown(el) ==
    LET keep == SelectSeq(el.kids, LAMBDA k : k.tag \in KnownKids(el.tag))
    IN  [tag |-> el.tag,
         attrs |-> [n \in DOMAIN el.attrs \cap KnownAttrs(el.tag) |-> el.attrs[n]],
         kids |-> [i \in 1..Len(keep) |-> StripUnknown(keep[i])]]

\* an unrecognised element stands between two Concepto elements
UnknownBetweenConceptos ==
    \E j \in 1..Len(SrcConceptosEls) : Runs(SrcConceptosEls[j].kids, "Concepto") > 1

\* C6: unrecognised elements or attributes anywhere in the text never turn a
\* successful parse into a failure, and the Document is the one parsed from
\* the text with the unrecognised content removed.
C6_UnknownContentIgnored ==
    Returned =>
        LET r == parse_cfdi(StripUnknown(xml_content), overlapped_lists)
        IN  r.ok => parsed = r

\* C6, where it holds: the same, for every text in which no unrecognised
\* element stands between two Concepto elements, and for every text when
\* quick-xml is built with overlapped-lists.
C6_UnknownContentIgnoredElsewhere ==
    (Returned /\ (overlapped_lists \/ ~UnknownBetweenConceptos)) =>
        LET r == parse_cfdi(StripUnknown(xml_content), overlapped_lists)
        IN  r.ok => parsed = r

\* the source with attribute name of the root set to text t
SetRootAttr(xml, name, t) == [xml EXCEPT !.attrs = WithAttr(@, name, t)]

\* the source with attribute name of child k of child j set to text t
SetConceptoAttr(xml, j, k, name, t) ==
    [xml EXCEPT !.kids[j].kids[k].attrs = WithAttr(@, name, t)]

\* <<j, k>> for every Concepto of the source
ConceptoLocs ==
    UNION {{<<j, k>> : k \in {k \in 1..Len(xml_content.kids[j].kids) :
                                xml_content.kids[j].kids[k].tag = "Concepto"}} :
           j \in {j \in 1..Len(xml_content.kids) :
                    xml_content.kids[j].tag = "Conceptos"}}

ConceptoAt(l) == xml_content.kids[l[1]].kids[l[2]]

IsNumber(t) == t \in DOMAIN F32Table

\* attribute name of el is present and its text is not a number
NotNumberIn(el, name) == name \in DOMAIN el.attrs /\ ~IsNumber(el.attrs[name])

\* the same, its text being other than the empty text
RejectedIn(el, name) == NotNumberIn(el, name) /\ el.attrs[name] # ""

\* the Document d with valor_unitario of the concept read from l set to t
WithValor(d, l, t) ==
    [d EXCEPT !.conceptos.concepto[Rank(xml_content.kids[l[1]].kids, l[2])].valor_unitario = t]

ValorUnitarioIsText ==
    (JustReturned /\ parsed.ok) =>
        \A l \in ConceptoLocs : \A t \in Texts :
            LET r == parse_cfdi(SetConceptoAttr(xml_content, l[1], l[2], "ValorUnitario", t),
                                overlapped_lists)
            IN  r.ok /\ r.val = WithValor(parsed.val, l, t)

\* C7 as stated: a value that is not a number in Total, SubTotal, Cantidad,
\* Importe or a present Descuento of a Concepto fails the parse, whereas
\* ValorUnitario and the Descuento of Comprobante accept any text and store
\* exactly the source text.
C7_AsStated ==
    /\ Returned =>
         /\ (NotNumberIn(xml_content, "Total") \/ NotNumberIn(xml_content, "SubTotal"))
              => ~parsed.ok
         /\ \A l \in ConceptoLocs :
              (\/ NotNumberIn(ConceptoAt(l), "Cantidad")
               \/ NotNumberIn(ConceptoAt(l), "Importe")
               \/ NotNumberIn(ConceptoAt(l), "Descuento")) => ~parsed.ok
    /\ ValorUnitarioIsText
    /\ (Returned /\ "Descuento" \in DOMAIN xml_content.attrs) =>
         /\ parse_cfdi(SetRootAttr(xml_content, "Descuento", "5.00"),
                       overlapped_lists).ok => parsed.ok
         /\ parsed.ok => parsed.val.descuento = Some(xml_content.attrs["Descuento"])

\* C7, amended: a value that is not a number in Total, SubTotal, Cantidad or
\* Importe, or a non-empty one in the Descuento of a Concepto, fails the
\* parse; ValorUnitario accepts any text and stores exactly the source text;
\* the Descuento of Comprobante accepts any text and stores exactly the
\* source text when it is not empty; an empty Descuento, on Comprobante or
\* on a Concepto, is accepted and read as absent.
C7_NumericAndText ==
    /\ Returned =>
         /\ (NotNumberIn(xml_content, "Total") \/ NotNumberIn(xml_content, "SubTotal"))
              => ~parsed.ok
         /\ \A l \in ConceptoLocs :
              (\/ NotNumberIn(ConceptoAt(l), "Cantidad")
               \/ NotNumberIn(ConceptoAt(l), "Importe")
               \/ RejectedIn(ConceptoAt(l), "Descuento")) => ~parsed.ok
    /\ ValorUnitarioIsText
    /\ (JustReturned /\ parsed.ok) =>
         /\ \A t \in Texts :
              LET r == parse_cfdi(SetRootAttr(xml_content, "Descuento", t), overlapped_lists)
              IN  r.ok /\ r.val = [parsed.val EXCEPT
                                     !.descuento = IF t = "" THEN None ELSE Some(t)]
         /\ \A l \in ConceptoLocs :
              LET r == parse_cfdi(SetConceptoAttr(xml_content, l[1], l[2], "Descuento", ""),
                                  overlapped_lists)
              IN  r.ok /\ r.val = Absent(parsed.val, {<<"Concepto", l[1], l[2], "Descuento">>})

\* a text whose second Concepto has ValorUnitario="abc" was parsed and the
\* Document holds "abc"
C7_Witness ==
    /\ pc = "parsed"
    /\ Len(SrcConceptoEls) >= 2
    /\ SrcConceptoEls[2].attrs["ValorUnitario"] = "abc"
    /\ parsed.val.conceptos.concepto[2].valor_unitario = "abc"
    /\ parsed.val.conceptos.concepto[1].valor_unitario = "10.500"

BaseConcepto ==
    [tag |-> "Concepto", attrs |-> BaseAttrs("Concepto", 1), kids |-> <<>>]

\* the source with one more Concepto in each Conceptos element
WithOneMoreConcepto(xml) ==
    [xml EXCEPT !.kids = [j \in 1..Len(@) |->
        IF @[j].tag = "Conceptos"
        THEN [@[j] EXCEPT !.kids = Append(@, BaseConcepto)]
        ELSE @[j]]]

ZeroConceptos == Len(SrcConceptosEls) = 1 /\ Len(SrcConceptoEls) = 0

OtherwiseValid == parse_cfdi(WithOneMoreConcepto(xml_content), overlapped_lists).ok

\* C9 as stated: an otherwise valid text whose Conceptos element has no
\* Concepto child is accepted and yields an empty concept sequence.
C9_AsStated ==
    (Returned /\ ZeroConceptos /\ OtherwiseValid) =>
        (parsed.ok /\ get_conceptos(parsed.val) = <<>>)

\* C9, amended: a text whose Conceptos element has no Concepto child is
\* rejected by parse_cfdi (the field Concepto is missing), so every Document
\* holds at least one concept and neither get_conceptos() nor the conceptos
\* of a Summary is ever empty.
C9_EmptyConceptosRejected ==
    /\ (Returned /\ Len(SrcConceptoEls) = 0) => (pc = "failed" /\ parsed = Err)
    /\ HasDocument => Len(get_conceptos(parsed.val)) >= 1
    /\ (pc = "parsed" /\ ret.op = "get_conceptos") => Len(ret.val) >= 1
    /\ pc = "consumed" => Len(ret.val.conceptos) >= 1

\* parse_cfdi failed on an otherwise valid text without any Concepto
C9_Witness == pc = "failed" /\ ZeroConceptos /\ OtherwiseValid

StampRequired == {"Version", "UUID", "FechaTimbrado", "NoCertificadoSAT"}

\* a TimbreFiscalDigital inside a Complemento lacks a required attribute
SrcIncompleteStamp ==
    \E j \in 1..Len(SrcComplementos) :
        SomeLacks(ChildrenNamed(SrcComplementos[j].kids, "TimbreFiscalDigital"),
                  StampRequired)

\* C10: a TimbreFiscalDigital inside a Complemento that lacks Version, UUID,
\* FechaTimbrado or NoCertificadoSAT fails the parse of the whole text; on
\* every Document a present stamp has its four fields, read from the source.
C10_IncompleteStampFails ==
    /\ (Returned /\ SrcIncompleteStamp) => (pc = "failed" /\ parsed = Err)
    /\ (HasDocument /\ parsed.val.complemento.some
          /\ parsed.val.complemento.val.timbre_fiscal_digital.some) =>
         LET tfd == parsed.val.complemento.val.timbre_fiscal_digital.val
         IN  /\ SourceHasStamp
             /\ tfd = [version |-> SrcTimbres[1].attrs["Version"],
                       uuid |-> SrcTimbres[1].attrs["UUID"],
                       fecha_timbrado |-> SrcTimbres[1].attrs["FechaTimbrado"],
                       no_certificado_sat |-> SrcTimbres[1].attrs["NoCertificadoSAT"]]

\* parse_cfdi failed on a text whose stamp lacks only its UUID
C10_Witness ==
    /\ pc = "failed"
    /\ SourceHasStamp
    /\ StampRequired \ DOMAIN SrcTimbres[1].attrs = {"UUID"}
    /\ ~MissingRequired

====
